---- MODULE Spec2Model ----
(***************************************************************************)
(* rtlog.py: session lifecycle (start / stop / status), the singleton      *)
(* state file ~/.rt_command_logger/.rtlog_state, the per-session audit.log *)
(* and commands.jsonl, and the VECTR export (import).                      *)
(*                                                                         *)
(* Each rtlog invocation is its own OS process; the steps of a handler are *)
(* its file-system calls, which interleave with those of other processes.  *)
(* Strings are sequences of one-character strings; the session id (uuid4)  *)
(* and other whitespace-free tokens are single symbols.                    *)
(***************************************************************************)
EXTENDS Integers, Sequences, FiniteSets, TLC

\* ------------------------------------------------------------------ bounds
\* distinct wall-clock seconds datetime.now() can return
MaxStamp == 2
\* commands run in one captured shell
MaxCmds == 1
\* invocations of `rtlog import`
MaxImports == 1
\* lines of a commands.jsonl left by an earlier session
MaxLines == 3
\* characters of a --name given to sanitize_name (and of the tail of a long one)
MaxNameLen == 2

\* the processes that run `rtlog start`; the pid of starter p is p
Starters == {1, 2}
Stamps == 1..MaxStamp

\* ------------------------------------------------------------ str helpers
NL == "\n"
Whitespace == {" ", NL, "\t"}

\* str.isalnum() for one character: ASCII and non-ASCII letters and digits
AsciiAlnum == {"a", "b", "h", "u", "T", "1", "2", "3", "4", "5", "6", "7", "8", "9"}
UnicodeAlnum == {"é"}
isalnum(c) == c \in AsciiAlnum \cup UnicodeAlnum

RECURSIVE lstrip(_)
lstrip(s) == IF s # <<>> /\ Head(s) \in Whitespace THEN lstrip(Tail(s)) ELSE s

RECURSIVE rstrip(_)
rstrip(s) ==
    IF s # <<>> /\ s[Len(s)] \in Whitespace THEN rstrip(SubSeq(s, 1, Len(s) - 1)) ELSE s

\* str.strip()
strip(s) == rstrip(lstrip(s))

\* str.replace(old, new) for a one-character old and new
replace(s, old, new) == [i \in 1..Len(s) |-> IF s[i] = old THEN new ELSE s[i]]

\* str.split('\n'): always at least one field
RECURSIVE split(_)
split(s) ==
    IF \A i \in 1..Len(s) : s[i] # NL
    THEN <<s>>
    ELSE LET k == CHOOSE i \in 1..Len(s) : s[i] = NL /\ \A j \in 1..(i - 1) : s[j] # NL
         IN <<SubSeq(s, 1, k - 1)>> \o split(SubSeq(s, k + 1, Len(s)))

\* str(int) and int(str) for the pids of the model
DigitOf == [n \in 1..9 |-> CASE n = 1 -> "1" [] n = 2 -> "2" [] n = 3 -> "3"
                             [] n = 4 -> "4" [] n = 5 -> "5" [] n = 6 -> "6"
                             [] n = 7 -> "7" [] n = 8 -> "8" [] n = 9 -> "9"]
str(n) == <<DigitOf[n]>>
IsDigit(c) == \E n \in 1..9 : DigitOf[n] = c
IsInt(s) == Len(s) >= 1 /\ \A i \in 1..Len(s) : IsDigit(s[i])
RECURSIVE int(_)
int(s) ==
    IF s = <<>> THEN 0
    ELSE 10 * int(SubSeq(s, 1, Len(s) - 1)) + (CHOOSE n \in 1..9 : DigitOf[n] = s[Len(s)])

\* ---------------------------------------------------------- sanitize_name
NameLimit == 50

\* the test of the generator expression: c.isalnum() or c in ['_', '-']
sanitize_keep(c) == isalnum(c) \/ c \in {"_", "-"}

\* ''.join(c for c in name if ...)
join_kept(s) ==
    LET F[i \in 0..Len(s)] ==
            IF i = 0 THEN <<>>
            ELSE IF sanitize_keep(s[i]) THEN Append(F[i - 1], s[i]) ELSE F[i - 1]
    IN F[Len(s)]

sanitize_name(name) ==
    LET replaced == replace(replace(replace(strip(name), " ", "_"), "/", "_"), ":", "_")
        kept == join_kept(replaced)
    IN IF Len(kept) > NameLimit THEN SubSeq(kept, 1, NameLimit) ELSE kept

\* ------------------------------------------------------------ the inputs
\* --outdir values (already in pathlib's normal form)
OutDirs == {<<"a">>, <<"a", NL, "b">>}
\* --name values; <<>> is "no --name" (None and "" are both falsy)
Names == {<<>>, <<"T", "!">>}

hostname == <<"h">>
user == <<"u">>
\* datetime.now(timezone.utc).strftime("%Y%m%dT%H%M%SZ") at wall-clock second t
strftime(t) == str(t)
\* str(uuid.uuid4()) drawn by process p: unique per call
uuid4(p) == <<CASE p = 1 -> "U1" [] p = 2 -> "U2" [] OTHER -> "U3">>

name_part(name) == IF name # <<>> THEN <<"_">> \o sanitize_name(name) ELSE <<>>

\* f"{now}_{hostname}_{user}{name_part}"
session_dir_name(now, name) ==
    now \o <<"_">> \o hostname \o <<"_">> \o user \o name_part(name)

\* outdir / f"{now}_{hostname}_{user}{name_part}"
session_dir_of(outdir, now, name) == outdir \o <<"/">> \o session_dir_name(now, name)

\* f"{now}{name_part}.log" and f"{now}{name_part}.time"
transcript_filename(now, name) == now \o name_part(name) \o <<".log">>

timing_filename(now, name) == now \o name_part(name) \o <<".time">>

\* before any name is derived
NoNames == [now |-> <<>>, sanitized |-> <<>>, dir |-> <<>>, transcript |-> <<>>,
            timing |-> <<>>]

\* the names of lines 226-246 for a --name
NamesFor(now, name) ==
    [now |-> now,
     sanitized |-> sanitize_name(name),
     dir |-> session_dir_name(now, name),
     transcript |-> transcript_filename(now, name),
     timing |-> timing_filename(now, name)]

\* the text start writes to STATE_FILE
state_record(dir, id, pid) == dir \o <<NL>> \o id \o <<NL>> \o str(pid)

\* f.read().strip().split('\n') as stop and status parse STATE_FILE
parse_state(content) == split(strip(content))

\* ------------------------------------------------------------- the state
\* permission bits: 0o700, 0o600, 0o666 and the umasks 0o000, 0o022, 0o077
OwnerRWX == {"ur", "uw", "ux"}
OwnerRW == {"ur", "uw"}
AllRW == {"ur", "uw", "gr", "gw", "or", "ow"}
U000 == {}
U022 == {"gw", "ow"}
U077 == {"gr", "gw", "gx", "or", "ow", "ox"}
Umasks == {U000, U022, U077}

\* a file of a session directory
Path(kind, dir) == [kind |-> kind, dir |-> dir]

VARIABLES
    pc,         \* [Starters -> label]: where each `rtlog start` process is
    sdir,       \* [Starters -> path]: its session_dir (<<>> before it is computed)
    nm,         \* [Starters -> name]: its --name
    shell,      \* [Starters -> "none" | "running" | "exited"]: its `script ... zsh -i` child
    err,        \* [Starters -> the error the process ended with, or "none"]
    fdino,      \* [Starters -> inode it holds open on STATE_FILE, 0 if none]
    dirs,       \* set of session directories that exist
    audit,      \* [dirs with an audit.log -> sequence of audit events]
    jsonl,      \* [dirs with a commands.jsonl -> sequence of lines]
    state,      \* STATE_FILE: <<>> if absent, else <<[ino, content]>>
    spc,        \* where the `rtlog stop` process is
    srec,       \* the fields stop parsed from STATE_FILE
    sres,       \* what the last `rtlog stop` printed
    signalled,  \* pids that received SIGTERM
    tpc,        \* where the `rtlog status` process is
    tout,       \* what the last `rtlog status` printed
    ipc,        \* where the `rtlog import` process is
    iin,        \* its input_path
    itemplate,  \* whether it was given --template
    iout,       \* its output_path
    ievents,    \* its `events` list
    iwarn,      \* number of "Skipping malformed JSON line" warnings it printed
    ires,       \* how the last `rtlog import` ended
    nimports,   \* number of `rtlog import` invocations so far
    outfile,    \* an export file outside the session directories: <<>> or <<lines>>
    outparent,  \* whether the parent directory of the export file exists
    cmdcount,   \* [Starters -> RT_COMMAND_COUNT of its captured shell]
    umask,      \* the permission bits the process umask clears at file creation
    perm,       \* [files and directories of the sessions -> their permission bits]
    given,      \* a --name whose derived names are computed on their own
    made        \* the names start_session derives from `given`

startVars == <<pc, sdir, nm, shell, err, fdino>>
fsVars == <<dirs, audit, jsonl, state>>
stopVars == <<spc, srec, sres, signalled>>
statusVars == <<tpc, tout>>
importVars == <<ipc, iin, itemplate, iout, ievents, iwarn, ires, nimports, outfile, outparent>>
hookVars == <<cmdcount>>
permVars == <<umask, perm>>
namingVars == <<given, made>>
vars == <<pc, sdir, nm, shell, err, fdino, dirs, audit, jsonl, state,
          spc, srec, sres, signalled, tpc, tout,
          ipc, iin, itemplate, iout, ievents, iwarn, ires, nimports, outfile, outparent,
          cmdcount, umask, perm, given, made>>

Init ==
    /\ pc = [p \in Starters |-> "idle"]
    /\ sdir = [p \in Starters |-> <<>>]
    /\ nm = [p \in Starters |-> <<>>]
    /\ shell = [p \in Starters |-> "none"]
    /\ err = [p \in Starters |-> "none"]
    /\ fdino = [p \in Starters |-> 0]
    /\ dirs = {}
    /\ audit = <<>>
    /\ jsonl = <<>>
    /\ state = <<>>
    /\ spc = "idle"
    /\ srec = <<>>
    /\ sres = "none"
    /\ signalled = {}
    /\ tpc = "idle"
    /\ tout = [kind |-> "none", fields |-> <<>>]
    /\ ipc = "idle"
    /\ iin = [kind |-> "none", dir |-> <<>>]
    /\ itemplate = FALSE
    /\ iout = [kind |-> "none", dir |-> <<>>]
    /\ ievents = <<>>
    /\ iwarn = 0
    /\ ires = [kind |-> "none", count |-> 0, warnings |-> 0]
    /\ nimports = 0
    /\ outfile = <<>>
    /\ outparent = FALSE
    /\ cmdcount = [p \in Starters |-> 0]
    /\ umask = U022
    /\ perm = <<>>
    /\ given = <<>>
    /\ made = NoNames

\* a process that exists and has not ended
Alive(p) == pc[p] \notin {"idle", "exited", "done", "killed", "crashed"}

\* f with key k set to v (k may be new)
Put(f, k, v) == [x \in DOMAIN f \cup {k} |-> IF x = k THEN v ELSE f[x]]

\* one line of audit.log: json.dump(entry) + newline
AuditEvent(event, details) == [kind |-> "audit", event |-> event, details |-> details]

\* the mode a file created with `mode` gets: mode & ~umask
Masked(mode) == mode \ umask

\* the permission bits after a file is created with `mode` if it is not there
Created(path, mode) == IF path \in DOMAIN perm THEN perm ELSE Put(perm, path, Masked(mode))

\* lines 203-205: open(audit_file, 'a') creates (mode 0o666 & ~umask) or appends;
\* needs session_dir
audit_append(session_dir, event, details) ==
    /\ session_dir \in dirs
    /\ audit' = Put(audit, session_dir,
                    (IF session_dir \in DOMAIN audit THEN audit[session_dir] ELSE <<>>)
                        \o <<AuditEvent(event, details)>>)

\* log_audit_event on an audit.log that exists: the append, then os.chmod 0o600
log_audit_event(session_dir, event, details) ==
    /\ audit_append(session_dir, event, details)
    /\ perm' = Put(perm, Path("audit", session_dir), OwnerRW)

\* ------------------------------------------------------------ start_session
\* StartSession with mkdir(exist_ok=True): an existing directory is taken over
StartSession_ExistOk(p) ==
    /\ pc[p] = "idle"
    /\ \E deps \in BOOLEAN, outdir \in OutDirs, name \in Names, t \in Stamps :
          LET session_dir == session_dir_of(outdir, strftime(t), name) IN
          IF ~deps
          THEN /\ pc' = [pc EXCEPT ![p] = "exited"]
               /\ err' = [err EXCEPT ![p] = "MissingDependency"]
               /\ UNCHANGED <<sdir, nm, dirs, perm>>
          ELSE /\ pc' = [pc EXCEPT ![p] = "log_start"]
               /\ sdir' = [sdir EXCEPT ![p] = session_dir]
               /\ nm' = [nm EXCEPT ![p] = name]
               /\ dirs' = dirs \cup {session_dir}
               /\ perm' = Created(Path("dir", session_dir), OwnerRWX)
               /\ UNCHANGED err
    /\ UNCHANGED <<shell, fdino, audit, jsonl, state>>
    /\ UNCHANGED <<stopVars, statusVars, importVars, hookVars>>
    /\ UNCHANGED <<umask, namingVars>>

\* which('script') / which('zsh') fail -> sys.exit; else the session directory is
\* made with exist_ok=False -> sys.exit on FileExistsError
StartSession(p) ==
    /\ pc[p] = "idle"
    /\ \E deps \in BOOLEAN, outdir \in OutDirs, name \in Names, t \in Stamps :
          LET session_dir == session_dir_of(outdir, strftime(t), name) IN
          IF ~deps
          THEN /\ pc' = [pc EXCEPT ![p] = "exited"]
               /\ err' = [err EXCEPT ![p] = "MissingDependency"]
               /\ UNCHANGED <<sdir, nm, dirs, perm>>
          ELSE IF session_dir \in dirs
          THEN /\ pc' = [pc EXCEPT ![p] = "exited"]
               /\ err' = [err EXCEPT ![p] = "AlreadyExists"]
               /\ UNCHANGED <<sdir, nm, dirs, perm>>
          ELSE /\ pc' = [pc EXCEPT ![p] = "log_start"]
               /\ sdir' = [sdir EXCEPT ![p] = session_dir]
               /\ nm' = [nm EXCEPT ![p] = name]
               /\ dirs' = dirs \cup {session_dir}
               /\ perm' = Created(Path("dir", session_dir), OwnerRWX)
               /\ UNCHANGED err
    /\ UNCHANGED <<shell, fdino, audit, jsonl, state>>
    /\ UNCHANGED <<stopVars, statusVars, importVars, hookVars>>
    /\ UNCHANGED <<umask, namingVars>>

\* log_audit_event(session_dir, "session_start", {"name": name or "none", ...}),
\* up to the end of its with block: audit.log is created and written
StartLogStart(p) ==
    /\ pc[p] = "log_start"
    /\ audit_append(sdir[p], "session_start", IF nm[p] # <<>> THEN nm[p] ELSE <<"none">>)
    /\ perm' = Created(Path("audit", sdir[p]), AllRW)
    /\ pc' = [pc EXCEPT ![p] = "chmod_audit"]
    /\ UNCHANGED <<sdir, nm, shell, err, fdino, dirs, jsonl, state>>
    /\ UNCHANGED <<stopVars, statusVars, importVars, hookVars>>
    /\ UNCHANGED <<umask, namingVars>>

\* line 206 of that call: os.chmod(audit_file, 0o600)
StartChmodAudit(p) ==
    /\ pc[p] = "chmod_audit"
    /\ perm' = Put(perm, Path("audit", sdir[p]), OwnerRW)
    /\ pc' = [pc EXCEPT ![p] = "touch"]
    /\ UNCHANGED <<sdir, nm, shell, err, fdino, fsVars>>
    /\ UNCHANGED <<stopVars, statusVars, importVars, hookVars>>
    /\ UNCHANGED <<umask, namingVars>>

\* Path.touch(mode=0o600) on commands.jsonl and commands.log: creates, never
\* truncates; then os.chmod 0o600
StartTouch(p) ==
    /\ pc[p] = "touch"
    /\ jsonl' = IF sdir[p] \in DOMAIN jsonl THEN jsonl ELSE Put(jsonl, sdir[p], <<>>)
    /\ perm' = Put(Put(perm, Path("jsonl", sdir[p]), OwnerRW), Path("log", sdir[p]), OwnerRW)
    /\ pc' = [pc EXCEPT ![p] = "open_state"]
    /\ UNCHANGED <<sdir, nm, shell, err, fdino, dirs, audit, state>>
    /\ UNCHANGED <<stopVars, statusVars, importVars, hookVars>>
    /\ UNCHANGED <<umask, namingVars>>

\* open(STATE_FILE, 'w'): creates the file, or truncates the one that is there
StartOpenState(p) ==
    /\ pc[p] = "open_state"
    /\ LET ino == IF state = <<>> THEN p ELSE state[1].ino IN
          /\ state' = <<[ino |-> ino, content |-> <<>>]>>
          /\ fdino' = [fdino EXCEPT ![p] = ino]
    /\ pc' = [pc EXCEPT ![p] = "write_state"]
    /\ UNCHANGED <<sdir, nm, shell, err, dirs, audit, jsonl>>
    /\ UNCHANGED <<stopVars, statusVars, importVars, hookVars>>
    /\ UNCHANGED <<permVars, namingVars>>

\* what a write of `new` at offset 0 leaves in a file that held `old`
Overwrite(old, new) ==
    IF Len(new) >= Len(old) THEN new ELSE new \o SubSeq(old, Len(new) + 1, Len(old))

\* f.write(f"{session_dir}\n{session_id}\n{os.getpid()}") reaches the inode at close;
\* if STATE_FILE was unlinked meanwhile the text goes to the orphaned inode
StartWriteState(p) ==
    /\ pc[p] = "write_state"
    /\ state' = IF state # <<>> /\ state[1].ino = fdino[p]
                THEN <<[ino |-> fdino[p],
                        content |-> Overwrite(state[1].content,
                                              state_record(sdir[p], uuid4(p), p))]>>
                ELSE state
    /\ fdino' = [fdino EXCEPT ![p] = 0]
    /\ pc' = [pc EXCEPT ![p] = "chmod_state"]
    /\ UNCHANGED <<sdir, nm, shell, err, dirs, audit, jsonl>>
    /\ UNCHANGED <<stopVars, statusVars, importVars, hookVars>>
    /\ UNCHANGED <<permVars, namingVars>>

\* lines 245-246: the files `script` is told to write
transcript(session_dir) == Path("transcript", session_dir)

timing(session_dir) == Path("timing", session_dir)

\* os.chmod(STATE_FILE, 0o600) raises FileNotFoundError if the file is gone (the
\* try/finally is not entered yet); else subprocess.call starts the captured
\* shell: `script` creates the transcript and timing files (mode 0o666 & ~umask)
StartSpawn(p) ==
    /\ pc[p] = "chmod_state"
    /\ IF state = <<>>
       THEN /\ pc' = [pc EXCEPT ![p] = "crashed"]
            /\ err' = [err EXCEPT ![p] = "FileNotFoundError"]
            /\ UNCHANGED <<shell, perm>>
       ELSE /\ pc' = [pc EXCEPT ![p] = "running"]
            /\ shell' = [shell EXCEPT ![p] = "running"]
            /\ perm' = [f \in DOMAIN perm \cup {transcript(sdir[p]), timing(sdir[p])} |->
                           IF f \in DOMAIN perm THEN perm[f] ELSE Masked(AllRW)]
            /\ UNCHANGED err
    /\ UNCHANGED <<sdir, nm, fdino, fsVars>>
    /\ UNCHANGED <<stopVars, statusVars, importVars, hookVars>>
    /\ UNCHANGED <<umask, namingVars>>

\* subprocess.call returns: the captured shell exited, normally or not (the return
\* code is discarded)
ShellExit(p) ==
    /\ pc[p] = "running"
    /\ shell[p] = "running"
    /\ shell' = [shell EXCEPT ![p] = "exited"]
    /\ pc' = [pc EXCEPT ![p] = "finally_log"]
    /\ UNCHANGED <<sdir, nm, err, fdino, fsVars>>
    /\ UNCHANGED <<stopVars, statusVars, importVars, hookVars>>
    /\ UNCHANGED <<permVars, namingVars>>

\* KeyboardInterrupt in subprocess.call: the child is killed, the except clause
\* prints, the finally clause runs
Interrupt(p) ==
    /\ pc[p] = "running"
    /\ shell[p] = "running"
    /\ shell' = [shell EXCEPT ![p] = "exited"]
    /\ pc' = [pc EXCEPT ![p] = "finally_log"]
    /\ UNCHANGED <<sdir, nm, err, fdino, fsVars>>
    /\ UNCHANGED <<stopVars, statusVars, importVars, hookVars>>
    /\ UNCHANGED <<permVars, namingVars>>

\* finally: log_audit_event(session_dir, "session_end", {...})
FinallyLog(p) ==
    /\ pc[p] = "finally_log"
    /\ log_audit_event(sdir[p], "session_end", <<>>)
    /\ pc' = [pc EXCEPT ![p] = "finally_exists"]
    /\ UNCHANGED <<sdir, nm, shell, err, fdino, dirs, jsonl, state>>
    /\ UNCHANGED <<stopVars, statusVars, importVars, hookVars>>
    /\ UNCHANGED <<umask, namingVars>>

\* finally: if STATE_FILE.exists():
FinallyExists(p) ==
    /\ pc[p] = "finally_exists"
    /\ pc' = [pc EXCEPT ![p] = IF state # <<>> THEN "finally_unlink" ELSE "done"]
    /\ UNCHANGED <<sdir, nm, shell, err, fdino, fsVars>>
    /\ UNCHANGED <<stopVars, statusVars, importVars, hookVars>>
    /\ UNCHANGED <<permVars, namingVars>>

\* FinallyUnlink without the unlink: the record outlives the session
FinallyUnlink_Leaves(p) ==
    /\ pc[p] = "finally_unlink"
    /\ pc' = [pc EXCEPT ![p] = "done"]
    /\ UNCHANGED <<sdir, nm, shell, err, fdino, fsVars>>
    /\ UNCHANGED <<stopVars, statusVars, importVars, hookVars>>
    /\ UNCHANGED <<permVars, namingVars>>

\* finally: STATE_FILE.unlink(), FileNotFoundError if it went away since the test
FinallyUnlink(p) ==
    /\ pc[p] = "finally_unlink"
    /\ IF state # <<>>
       THEN /\ state' = <<>>
            /\ pc' = [pc EXCEPT ![p] = "done"]
            /\ UNCHANGED err
       ELSE /\ pc' = [pc EXCEPT ![p] = "crashed"]
            /\ err' = [err EXCEPT ![p] = "FileNotFoundError"]
            /\ UNCHANGED state
    /\ UNCHANGED <<sdir, nm, shell, fdino, dirs, audit, jsonl>>
    /\ UNCHANGED <<stopVars, statusVars, importVars, hookVars>>
    /\ UNCHANGED <<permVars, namingVars>>

\* the captured shell of a start process that SIGTERM killed exits later on its own
OrphanExit(p) ==
    /\ pc[p] = "killed"
    /\ shell[p] = "running"
    /\ shell' = [shell EXCEPT ![p] = "exited"]
    /\ UNCHANGED <<pc, sdir, nm, err, fdino, fsVars>>
    /\ UNCHANGED <<stopVars, statusVars, importVars, hookVars>>
    /\ UNCHANGED <<permVars, namingVars>>

\* -------------------------------------------------------------- stop_session
\* StopCheck without the early return
StopCheck_NoReturn ==
    /\ spc = "idle"
    /\ sres' = "none"
    /\ spc' = "read"
    /\ UNCHANGED <<srec, signalled>>
    /\ UNCHANGED <<startVars, fsVars, statusVars, importVars, hookVars>>
    /\ UNCHANGED <<permVars, namingVars>>

\* if not STATE_FILE.exists(): print("No active session found."); return
StopCheck ==
    /\ spc = "idle"
    /\ IF state = <<>>
       THEN /\ sres' = "no_active"
            /\ UNCHANGED spc
       ELSE /\ sres' = "none"
            /\ spc' = "read"
    /\ UNCHANGED <<srec, signalled>>
    /\ UNCHANGED <<startVars, fsVars, statusVars, importVars, hookVars>>
    /\ UNCHANGED <<permVars, namingVars>>

\* StopRead that removes a record it cannot parse
StopRead_DropsCorrupt ==
    /\ spc = "read"
    /\ IF state = <<>>
       THEN /\ sres' = "FileNotFoundError"
            /\ spc' = "idle"
            /\ UNCHANGED <<srec, state>>
       ELSE IF Len(parse_state(state[1].content)) # 3
       THEN /\ sres' = "ValueError"
            /\ spc' = "idle"
            /\ state' = <<>>
            /\ UNCHANGED srec
       ELSE /\ srec' = parse_state(state[1].content)
            /\ spc' = "kill"
            /\ UNCHANGED <<sres, state>>
    /\ UNCHANGED signalled
    /\ UNCHANGED <<dirs, audit, jsonl>>
    /\ UNCHANGED <<startVars, statusVars, importVars, hookVars>>
    /\ UNCHANGED <<permVars, namingVars>>

\* open + read + strip + split + unpack into three names; any exception is
\* caught by `except Exception` and printed
StopRead ==
    /\ spc = "read"
    /\ IF state = <<>>
       THEN /\ sres' = "FileNotFoundError"
            /\ spc' = "idle"
            /\ UNCHANGED srec
       ELSE IF Len(parse_state(state[1].content)) # 3
       THEN /\ sres' = "ValueError"
            /\ spc' = "idle"
            /\ UNCHANGED srec
       ELSE /\ srec' = parse_state(state[1].content)
            /\ spc' = "kill"
            /\ UNCHANGED sres
    /\ UNCHANGED signalled
    /\ UNCHANGED <<startVars, fsVars, statusVars, importVars, hookVars>>
    /\ UNCHANGED <<permVars, namingVars>>

\* os.kill(int(pid), SIGTERM); time.sleep(0.1) -- `time` is never imported, so a
\* delivered signal is followed by NameError, caught by `except Exception`.
\* SIGTERM has its default disposition in the start process: it dies at once and
\* its finally clause does not run.  ProcessLookupError is passed over.
\* A pid that is no start process of the model is some other process or none.
StopKill ==
    /\ spc = "kill"
    /\ IF ~IsInt(srec[3])
       THEN /\ sres' = "ValueError"
            /\ spc' = "idle"
            /\ srec' = <<>>
            /\ UNCHANGED <<pc, signalled>>
       ELSE IF int(srec[3]) \in Starters
       THEN IF Alive(int(srec[3]))
            THEN /\ pc' = [pc EXCEPT ![int(srec[3])] = "killed"]
                 /\ signalled' = signalled \cup {int(srec[3])}
                 /\ sres' = "NameError"
                 /\ spc' = "idle"
                 /\ srec' = <<>>
            ELSE /\ spc' = "exists"
                 /\ UNCHANGED <<pc, signalled, sres, srec>>
       ELSE \/ /\ spc' = "exists"
               /\ UNCHANGED <<pc, signalled, sres, srec>>
            \/ /\ signalled' = signalled \cup {int(srec[3])}
               /\ sres' = "NameError"
               /\ spc' = "idle"
               /\ srec' = <<>>
               /\ UNCHANGED pc
    /\ UNCHANGED <<sdir, nm, shell, err, fdino>>
    /\ UNCHANGED <<fsVars, statusVars, importVars, hookVars>>
    /\ UNCHANGED <<permVars, namingVars>>

\* if STATE_FILE.exists():
StopExists ==
    /\ spc = "exists"
    /\ spc' = IF state # <<>> THEN "unlink" ELSE "log"
    /\ UNCHANGED <<srec, sres, signalled>>
    /\ UNCHANGED <<startVars, fsVars, statusVars, importVars, hookVars>>
    /\ UNCHANGED <<permVars, namingVars>>

\* STATE_FILE.unlink()
StopUnlink ==
    /\ spc = "unlink"
    /\ IF state # <<>>
       THEN /\ state' = <<>>
            /\ spc' = "log"
            /\ UNCHANGED <<srec, sres>>
       ELSE /\ sres' = "FileNotFoundError"
            /\ spc' = "idle"
            /\ srec' = <<>>
            /\ UNCHANGED state
    /\ UNCHANGED <<signalled, dirs, audit, jsonl>>
    /\ UNCHANGED <<startVars, statusVars, importVars, hookVars>>
    /\ UNCHANGED <<permVars, namingVars>>

\* log_audit_event(session_dir, "session_stop", {"session_id": session_id})
StopLog ==
    /\ spc = "log"
    /\ IF srec[1] \in dirs
       THEN /\ log_audit_event(srec[1], "session_stop", srec[2])
            /\ sres' = "stopped"
       ELSE /\ sres' = "FileNotFoundError"
            /\ UNCHANGED <<audit, perm>>
    /\ spc' = "idle"
    /\ srec' = <<>>
    /\ UNCHANGED <<signalled, dirs, jsonl, state>>
    /\ UNCHANGED <<startVars, statusVars, importVars, hookVars>>
    /\ UNCHANGED <<umask, namingVars>>

\* ------------------------------------------------------------ status_session
\* if not STATE_FILE.exists(): print("No active session."); return
StatusCheck ==
    /\ tpc = "idle"
    /\ IF state = <<>>
       THEN /\ tout' = [kind |-> "no_active", fields |-> <<>>]
            /\ UNCHANGED tpc
       ELSE /\ tout' = [kind |-> "none", fields |-> <<>>]
            /\ tpc' = "read"
    /\ UNCHANGED <<startVars, fsVars, stopVars, importVars, hookVars>>
    /\ UNCHANGED <<permVars, namingVars>>

\* open + read + strip + split + unpack, then the three prints
StatusRead ==
    /\ tpc = "read"
    /\ tout' = IF state = <<>>
               THEN [kind |-> "FileNotFoundError", fields |-> <<>>]
               ELSE IF Len(parse_state(state[1].content)) # 3
               THEN [kind |-> "ValueError", fields |-> <<>>]
               ELSE [kind |-> "active", fields |-> parse_state(state[1].content)]
    /\ tpc' = "idle"
    /\ UNCHANGED <<startVars, fsVars, stopVars, importVars, hookVars>>
    /\ UNCHANGED <<permVars, namingVars>>

\* ------------------------------------------------- the shell hook (zshrc)
\* the ttp_tag start_session puts into the zshrc: name or "none"
ttp_tag_of(name) == IF name # <<>> THEN name ELSE <<"none">>

\* one line of commands.jsonl as rtlog_precmd's printf writes it; the fields are
\* pasted into the JSON text unescaped, so the line may fail to parse
CommandLine(p, wellformed) ==
    [kind |-> IF wellformed THEN "cmd" ELSE "bad", event |-> uuid4(p), details |-> ttp_tag_of(nm[p])]

\* rtlog_preexec counts the command, rtlog_precmd appends with >>
HookAppend(p) ==
    /\ shell[p] = "running"
    /\ cmdcount[p] < MaxCmds
    /\ cmdcount' = [cmdcount EXCEPT ![p] = @ + 1]
    /\ \E wellformed \in BOOLEAN :
          jsonl' = Put(jsonl, sdir[p],
                       (IF sdir[p] \in DOMAIN jsonl THEN jsonl[sdir[p]] ELSE <<>>)
                           \o <<CommandLine(p, wellformed)>>)
    /\ UNCHANGED <<startVars, dirs, audit, state, stopVars, statusVars, importVars>>
    /\ UNCHANGED <<permVars, namingVars>>

\* -------------------------------------------------------------- import_vectr
\* paths the user can name: a path that does not exist, a session directory, a
\* session's commands.jsonl or audit.log, the export file
Paths ==
    {Path("missing", <<>>), Path("out", <<>>)}
        \cup {Path(k, d) : k \in {"dir", "jsonl", "audit"}, d \in dirs}

exists(path) ==
    CASE path.kind = "missing" -> FALSE
      [] path.kind = "out" -> outfile # <<>>
      [] path.kind = "dir" -> path.dir \in dirs
      [] path.kind = "jsonl" -> path.dir \in DOMAIN jsonl
      [] path.kind = "audit" -> path.dir \in DOMAIN audit

is_file(path) == exists(path) /\ path.kind # "dir"

ReadLines(path) ==
    CASE path.kind = "out" -> outfile[1]
      [] path.kind = "jsonl" -> jsonl[path.dir]
      [] path.kind = "audit" -> audit[path.dir]

\* json.loads(line) succeeds: audit lines and well-formed command lines are JSON
\* objects; no single line of a pretty-printed document is, nor is a blank line
IsJson(line) == line.kind \in {"cmd", "audit"}

\* variant: no line counts as blank, the guard of line 348 is dropped
IsBlank_Never(line) == FALSE

\* `if line.strip():` is false: the line holds only whitespace
IsBlank(line) == line.kind = "blank"

\* event = {"mapped": event}
Mapped(event) == [kind |-> "mapped", event |-> event, details |-> <<>>]

\* variant: the first malformed line ends the read
ParseLines_StopsAtBad(lines, template) ==
    LET E[i \in 0..Len(lines)] ==
            IF i = 0 THEN [events |-> <<>>, warnings |-> 0, open |-> TRUE]
            ELSE IF ~E[i - 1].open \/ IsBlank(lines[i]) THEN E[i - 1]
            ELSE IF IsJson(lines[i])
            THEN [E[i - 1] EXCEPT !.events =
                     Append(@, IF template THEN Mapped(lines[i]) ELSE lines[i])]
            ELSE [E[i - 1] EXCEPT !.warnings = @ + 1, !.open = FALSE]
    IN [events |-> E[Len(lines)].events, warnings |-> E[Len(lines)].warnings]

\* the loop of lines 346-354: (events, number of warnings printed)
ParseLines(lines, template) ==
    LET E[i \in 0..Len(lines)] ==
            IF i = 0 THEN [events |-> <<>>, warnings |-> 0]
            ELSE IF IsBlank(lines[i]) THEN E[i - 1]
            ELSE IF IsJson(lines[i])
            THEN [E[i - 1] EXCEPT !.events =
                     Append(@, IF template THEN Mapped(lines[i]) ELSE lines[i])]
            ELSE [E[i - 1] EXCEPT !.warnings = @ + 1]
    IN E[Len(lines)]

\* the lines json.dump(vectr, f, indent=2) writes for {'events': events}
DumpLines(events) ==
    <<[kind |-> "doc", event |-> "open", details |-> <<>>]>>
        \o [i \in 1..Len(events) |-> [kind |-> "doc", event |-> "item", details |-> events[i]]]
        \o <<[kind |-> "doc", event |-> "close", details |-> <<>>]>>

\* variant: the parent of the output path is made before the input is checked
ImportRead_MkdirFirst ==
    /\ ipc = "idle"
    /\ nimports < MaxImports
    /\ nimports' = nimports + 1
    /\ \E input_path \in Paths, output_path \in Paths \ {Path("missing", <<>>)},
          template \in BOOLEAN :
          /\ iin' = input_path
          /\ IF ~exists(input_path)
             THEN /\ ires' = [kind |-> "InputNotFound", count |-> 0, warnings |-> 0]
                  /\ UNCHANGED <<ipc, itemplate, iout, ievents, iwarn>>
             ELSE IF ~is_file(input_path)
             THEN /\ ires' = [kind |-> "NotAFile", count |-> 0, warnings |-> 0]
                  /\ UNCHANGED <<ipc, itemplate, iout, ievents, iwarn>>
             ELSE /\ ievents' = ParseLines(ReadLines(input_path), template).events
                  /\ iwarn' = ParseLines(ReadLines(input_path), template).warnings
                  /\ itemplate' = template
                  /\ iout' = output_path
                  /\ ires' = [kind |-> "none", count |-> 0, warnings |-> 0]
                  /\ ipc' = "open"
    /\ outparent' = TRUE
    /\ UNCHANGED outfile
    /\ UNCHANGED <<startVars, fsVars, stopVars, statusVars, hookVars>>
    /\ UNCHANGED <<permVars, namingVars>>

\* lines 338-358: the input checks, then the whole read
ImportRead ==
    /\ ipc = "idle"
    /\ nimports < MaxImports
    /\ nimports' = nimports + 1
    /\ \E input_path \in Paths, output_path \in Paths \ {Path("missing", <<>>)},
          template \in BOOLEAN :
          /\ iin' = input_path
          /\ IF ~exists(input_path)
             THEN /\ ires' = [kind |-> "InputNotFound", count |-> 0, warnings |-> 0]
                  /\ UNCHANGED <<ipc, itemplate, iout, ievents, iwarn>>
             ELSE IF ~is_file(input_path)
             THEN /\ ires' = [kind |-> "NotAFile", count |-> 0, warnings |-> 0]
                  /\ UNCHANGED <<ipc, itemplate, iout, ievents, iwarn>>
             ELSE /\ ievents' = ParseLines(ReadLines(input_path), template).events
                  /\ iwarn' = ParseLines(ReadLines(input_path), template).warnings
                  /\ itemplate' = template
                  /\ iout' = output_path
                  /\ ires' = [kind |-> "none", count |-> 0, warnings |-> 0]
                  /\ ipc' = "open"
    /\ UNCHANGED <<outfile, outparent>>
    /\ UNCHANGED <<startVars, fsVars, stopVars, statusVars, hookVars>>
    /\ UNCHANGED <<permVars, namingVars>>

\* lines 360-361: output_path.parent.mkdir(parents=True, exist_ok=True), then
\* open(output_path, 'w') creates or truncates; on a directory it raises
\* IsADirectoryError, an IOError
ImportOpen ==
    /\ ipc = "open"
    /\ CASE iout.kind = "dir" ->
              /\ ires' = [kind |-> "WriteError", count |-> 0, warnings |-> iwarn]
              /\ ipc' = "idle"
              /\ iin' = Path("none", <<>>)
              /\ itemplate' = FALSE
              /\ iout' = Path("none", <<>>)
              /\ ievents' = <<>>
              /\ iwarn' = 0
              /\ UNCHANGED <<outfile, outparent, jsonl, audit>>
         [] iout.kind = "out" ->
              /\ outparent' = TRUE
              /\ outfile' = << <<>> >>
              /\ ipc' = "dump"
              /\ UNCHANGED <<ires, iin, itemplate, iout, ievents, iwarn, jsonl, audit>>
         [] iout.kind = "jsonl" ->
              /\ jsonl' = Put(jsonl, iout.dir, <<>>)
              /\ ipc' = "dump"
              /\ UNCHANGED <<ires, iin, itemplate, iout, ievents, iwarn, outfile, outparent, audit>>
         [] iout.kind = "audit" ->
              /\ audit' = Put(audit, iout.dir, <<>>)
              /\ ipc' = "dump"
              /\ UNCHANGED <<ires, iin, itemplate, iout, ievents, iwarn, outfile, outparent, jsonl>>
    /\ UNCHANGED <<nimports, dirs, state>>
    /\ UNCHANGED <<startVars, stopVars, statusVars, hookVars>>
    /\ UNCHANGED <<permVars, namingVars>>

\* the text `written` put at offset 0 of the file output_path names
WriteOutput(output_path, written) ==
    CASE output_path.kind = "out" ->
              /\ outfile' = <<Overwrite(outfile[1], written)>>
              /\ UNCHANGED <<jsonl, audit>>
         [] output_path.kind = "jsonl" ->
              /\ jsonl' = Put(jsonl, output_path.dir, Overwrite(jsonl[output_path.dir], written))
              /\ UNCHANGED <<outfile, audit>>
         [] output_path.kind = "audit" ->
              /\ audit' = Put(audit, output_path.dir, Overwrite(audit[output_path.dir], written))
              /\ UNCHANGED <<outfile, jsonl>>

\* lines 362-366: json.dump reaches the file at offset 0 when the buffer is flushed
\* (at close for a small document), then chmod and the count are printed; an
\* OSError of the write (disk full, I/O error) leaves what was written so far and
\* ends the command with "Error writing"
ImportDump ==
    /\ ipc = "dump"
    /\ \/ /\ WriteOutput(iout, DumpLines(ievents))
          /\ ires' = [kind |-> "exported", count |-> Len(ievents), warnings |-> iwarn]
       \/ /\ \E k \in 0..(Len(DumpLines(ievents)) - 1) :
                WriteOutput(iout, SubSeq(DumpLines(ievents), 1, k))
          /\ ires' = [kind |-> "WriteError", count |-> 0, warnings |-> iwarn]
    /\ ipc' = "idle"
    /\ iin' = Path("none", <<>>)
    /\ itemplate' = FALSE
    /\ iout' = Path("none", <<>>)
    /\ ievents' = <<>>
    /\ iwarn' = 0
    /\ UNCHANGED <<nimports, outparent, dirs, state>>
    /\ UNCHANGED <<startVars, stopVars, statusVars, hookVars>>
    /\ UNCHANGED <<permVars, namingVars>>

\* ------------------------------------------------------------------- spec
Next ==
    \/ \E p \in Starters : StartSession(p)
    \/ \E p \in Starters : StartLogStart(p)
    \/ \E p \in Starters : StartChmodAudit(p)
    \/ \E p \in Starters : StartTouch(p)
    \/ \E p \in Starters : StartOpenState(p)
    \/ \E p \in Starters : StartWriteState(p)
    \/ \E p \in Starters : StartSpawn(p)
    \/ \E p \in Starters : ShellExit(p)
    \/ \E p \in Starters : Interrupt(p)
    \/ \E p \in Starters : FinallyLog(p)
    \/ \E p \in Starters : FinallyExists(p)
    \/ \E p \in Starters : FinallyUnlink(p)
    \/ \E p \in Starters : OrphanExit(p)
    \/ StopCheck
    \/ StopRead
    \/ StopKill
    \/ StopExists
    \/ StopUnlink
    \/ StopLog
    \/ StatusCheck
    \/ StatusRead

Spec == Init /\ [][Next]_vars

\* one session, its shell hook, stop and import
ExportStarters == {1}

NextExport ==
    \/ \E p \in ExportStarters : StartSession(p)
    \/ \E p \in ExportStarters : StartLogStart(p)
    \/ \E p \in ExportStarters : StartChmodAudit(p)
    \/ \E p \in ExportStarters : StartTouch(p)
    \/ \E p \in ExportStarters : StartOpenState(p)
    \/ \E p \in ExportStarters : StartWriteState(p)
    \/ \E p \in ExportStarters : StartSpawn(p)
    \/ \E p \in ExportStarters : ShellExit(p)
    \/ \E p \in ExportStarters : Interrupt(p)
    \/ \E p \in ExportStarters : FinallyLog(p)
    \/ \E p \in ExportStarters : FinallyExists(p)
    \/ \E p \in ExportStarters : FinallyUnlink(p)
    \/ \E p \in ExportStarters : OrphanExit(p)
    \/ \E p \in ExportStarters : HookAppend(p)
    \/ StopCheck
    \/ StopRead
    \/ StopKill
    \/ StopExists
    \/ StopUnlink
    \/ StopLog
    \/ StatusCheck
    \/ StatusRead
    \/ ImportRead
    \/ ImportOpen
    \/ ImportDump

SpecExport == Init /\ [][NextExport]_vars

\* one `rtlog start`, its shell and `rtlog stop`, under every umask
InitPerms ==
    /\ pc = [p \in Starters |-> "idle"]
    /\ sdir = [p \in Starters |-> <<>>]
    /\ nm = [p \in Starters |-> <<>>]
    /\ shell = [p \in Starters |-> "none"]
    /\ err = [p \in Starters |-> "none"]
    /\ fdino = [p \in Starters |-> 0]
    /\ dirs = {}
    /\ audit = <<>>
    /\ jsonl = <<>>
    /\ state = <<>>
    /\ spc = "idle"
    /\ srec = <<>>
    /\ sres = "none"
    /\ signalled = {}
    /\ tpc = "idle"
    /\ tout = [kind |-> "none", fields |-> <<>>]
    /\ ipc = "idle"
    /\ iin = [kind |-> "none", dir |-> <<>>]
    /\ itemplate = FALSE
    /\ iout = [kind |-> "none", dir |-> <<>>]
    /\ ievents = <<>>
    /\ iwarn = 0
    /\ ires = [kind |-> "none", count |-> 0, warnings |-> 0]
    /\ nimports = 0
    /\ outfile = <<>>
    /\ outparent = FALSE
    /\ cmdcount = [p \in Starters |-> 0]
    /\ umask \in Umasks
    /\ perm = <<>>
    /\ given = <<>>
    /\ made = NoNames

NextPerms ==
    \/ \E p \in ExportStarters : StartSession(p)
    \/ \E p \in ExportStarters : StartLogStart(p)
    \/ \E p \in ExportStarters : StartChmodAudit(p)
    \/ \E p \in ExportStarters : StartTouch(p)
    \/ \E p \in ExportStarters : StartOpenState(p)
    \/ \E p \in ExportStarters : StartWriteState(p)
    \/ \E p \in ExportStarters : StartSpawn(p)
    \/ \E p \in ExportStarters : HookAppend(p)
    \/ \E p \in ExportStarters : ShellExit(p)
    \/ \E p \in ExportStarters : Interrupt(p)
    \/ \E p \in ExportStarters : FinallyLog(p)
    \/ \E p \in ExportStarters : FinallyExists(p)
    \/ \E p \in ExportStarters : FinallyUnlink(p)
    \/ \E p \in ExportStarters : OrphanExit(p)
    \/ StopCheck
    \/ StopRead
    \/ StopKill
    \/ StopExists
    \/ StopUnlink
    \/ StopLog

SpecPerms == InitPerms /\ [][NextPerms]_vars

\* the names start_session derives, for every --name of a bounded alphabet
NameChars == {"a", "T", "1", "_", "-", " ", "/", ":", "!", "é"}

ShortNames == UNION {[1..n -> NameChars] : n \in 0..MaxNameLen}

\* names around the length limit: NameLimit - 1 letters, then a short name
LongNames == {[i \in 1..(NameLimit - 1) |-> "a"] \o tail : tail \in ShortNames \ {<<>>}}

NameInputs == ShortNames \cup LongNames

InitNaming ==
    /\ pc = [p \in Starters |-> "idle"]
    /\ sdir = [p \in Starters |-> <<>>]
    /\ nm = [p \in Starters |-> <<>>]
    /\ shell = [p \in Starters |-> "none"]
    /\ err = [p \in Starters |-> "none"]
    /\ fdino = [p \in Starters |-> 0]
    /\ dirs = {}
    /\ audit = <<>>
    /\ jsonl = <<>>
    /\ state = <<>>
    /\ spc = "idle"
    /\ srec = <<>>
    /\ sres = "none"
    /\ signalled = {}
    /\ tpc = "idle"
    /\ tout = [kind |-> "none", fields |-> <<>>]
    /\ ipc = "idle"
    /\ iin = [kind |-> "none", dir |-> <<>>]
    /\ itemplate = FALSE
    /\ iout = [kind |-> "none", dir |-> <<>>]
    /\ ievents = <<>>
    /\ iwarn = 0
    /\ ires = [kind |-> "none", count |-> 0, warnings |-> 0]
    /\ nimports = 0
    /\ outfile = <<>>
    /\ outparent = FALSE
    /\ cmdcount = [p \in Starters |-> 0]
    /\ umask = U022
    /\ perm = <<>>
    /\ given \in NameInputs
    /\ made = NoNames

\* lines 226-246: the timestamp is taken and the names are composed
ComposeNames ==
    /\ made = NoNames
    /\ \E t \in Stamps : made' = NamesFor(strftime(t), given)
    /\ UNCHANGED <<given, startVars, fsVars, stopVars, statusVars, importVars, hookVars,
                   permVars>>

NextNaming == ComposeNames

SpecNaming == InitNaming /\ [][NextNaming]_vars

\* `rtlog import` run on what an earlier session left on disk
OldDir == session_dir_of(<<"a">>, strftime(1), <<>>)

\* lines a commands.jsonl can hold: two well-formed events, a line that is not
\* JSON, a blank line
OldLines ==
    {[kind |-> "cmd", event |-> <<"U0">>, details |-> <<"none">>],
     [kind |-> "cmd", event |-> <<"U0">>, details |-> <<"T">>],
     [kind |-> "bad", event |-> <<"U0">>, details |-> <<"none">>],
     [kind |-> "blank", event |-> <<>>, details |-> <<>>]}

Streams == UNION {[1..n -> OldLines] : n \in 0..MaxLines}

InitImport ==
    /\ pc = [p \in Starters |-> "idle"]
    /\ sdir = [p \in Starters |-> <<>>]
    /\ nm = [p \in Starters |-> <<>>]
    /\ shell = [p \in Starters |-> "none"]
    /\ err = [p \in Starters |-> "none"]
    /\ fdino = [p \in Starters |-> 0]
    /\ dirs = {OldDir}
    /\ audit = Put(<<>>, OldDir, <<AuditEvent("session_start", <<"none">>),
                                    AuditEvent("session_end", <<>>)>>)
    /\ \E lines \in Streams : jsonl = Put(<<>>, OldDir, lines)
    /\ state = <<>>
    /\ spc = "idle"
    /\ srec = <<>>
    /\ sres = "none"
    /\ signalled = {}
    /\ tpc = "idle"
    /\ tout = [kind |-> "none", fields |-> <<>>]
    /\ ipc = "idle"
    /\ iin = [kind |-> "none", dir |-> <<>>]
    /\ itemplate = FALSE
    /\ iout = [kind |-> "none", dir |-> <<>>]
    /\ ievents = <<>>
    /\ iwarn = 0
    /\ ires = [kind |-> "none", count |-> 0, warnings |-> 0]
    /\ nimports = 0
    /\ \E old \in {<<>>, <<DumpLines(<<>>)>>} :
          /\ outfile = old
          /\ outparent = (old # <<>>)
    /\ cmdcount = [p \in Starters |-> 0]
    /\ umask = U022
    /\ perm = [f \in {Path(k, OldDir) : k \in {"dir", "audit", "jsonl", "log",
                                                 "transcript", "timing"}} |->
                  CASE f.kind = "dir" -> OwnerRWX
                    [] f.kind \in {"transcript", "timing"} -> AllRW \ U022
                    [] OTHER -> OwnerRW]
    /\ given = <<>>
    /\ made = NoNames

NextImport ==
    \/ ImportRead
    \/ ImportOpen
    \/ ImportDump

SpecImport == InitImport /\ [][NextImport]_vars

\* ================================================================ claims
IsPrefix(a, b) == Len(a) <= Len(b) /\ SubSeq(b, 1, Len(a)) = a

HasEvent(log, event) == \E i \in 1..Len(log) : log[i].kind = "audit" /\ log[i].event = event

LastEvent(log) == IF log = <<>> THEN "none" ELSE log[Len(log)].event

\* the text start process p writes to STATE_FILE
RecordOf(p) == state_record(sdir[p], uuid4(p), p)

\* the fields start process p writes to STATE_FILE
FieldsOf(p) == <<sdir[p], uuid4(p), str(p)>>

\* p has written its state record and its end-of-session cleanup is not complete
SessionActive(p) ==
    pc[p] \in {"chmod_state", "running", "finally_log", "finally_exists", "finally_unlink"}

\* the stop process took a step
StopStep == <<spc, srec, sres, signalled>>' # <<spc, srec, sres, signalled>>

\* the status process took a step
StatusStep == <<tpc, tout>>' # <<tpc, tout>>

\* C1: for every interleaving of start, stop and status, at most one session is
\* active at any time (active: from the write of its state record until its
\* cleanup, or a stop against it, completes).
C1_AtMostOneActive == Cardinality({p \in Starters : SessionActive(p)}) <= 1

\* C2: a start that reaches the write of the state record while the record of an
\* earlier, still running session exists fails with StateConflict and writes nothing.
C2_SecondStartConflicts ==
    [][\A p \in Starters :
          (/\ pc[p] = "open_state"
           /\ pc'[p] \notin {"open_state", "killed"}
           /\ \E q \in Starters \ {p} :
                 /\ pc[q] = "running"
                 /\ state # <<>>
                 /\ state[1].content = RecordOf(q))
          => (err'[p] = "StateConflict" /\ state' = state)]_vars

\* C3: a stop that read the well-formed record of session q returns only after
\* signalling q's pid, deleting the state record and appending session_stop to q's
\* audit log, whether the process was alive or gone.
C3_StopCleansUp ==
    [][\A q \in Starters :
          (/\ spc \in {"kill", "exists", "unlink", "log"}
           /\ spc' = "idle"
           /\ srec = FieldsOf(q))
          => (/\ state' = <<>>
              /\ LastEvent(audit'[sdir[q]]) = "session_stop")]_vars

\* C4: once start has written the state record, every way the blocking call ends
\* (shell exit, normal or not, or an interrupt) enters the cleanup, and when the
\* cleanup is over session_end is in the session's audit log and the state record
\* is gone.
C4_CleanupOnEveryEnd ==
    [][\A p \in Starters :
          /\ (pc[p] = "running" /\ pc'[p] \notin {"running", "killed"})
                => pc'[p] = "finally_log"
          /\ (pc[p] = "finally_log" /\ pc'[p] \notin {"finally_log", "killed"})
                => (/\ pc'[p] = "finally_exists"
                    /\ audit'[sdir[p]] = audit[sdir[p]] \o <<AuditEvent("session_end", <<>>)>>)
          /\ (pc[p] \in {"finally_exists", "finally_unlink"} /\ pc'[p] \in {"done", "crashed"})
                => (state' = <<>> /\ HasEvent(audit'[sdir[p]], "session_end"))]_vars

C4_Witness ==
    \E p \in Starters :
        /\ pc[p] = "done"
        /\ state = <<>>
        /\ LastEvent(audit[sdir[p]]) = "session_end"

\* C5: while the captured shell of a started session runs and no stop is under way
\* against it, the state record exists and holds exactly that session's directory,
\* id and pid.
C5_RecordIsTheRunningSession ==
    \A p \in Starters :
        (pc[p] = "running" /\ ~(spc # "idle" /\ srec # <<>> /\ srec[3] = str(p)))
        => (state # <<>> /\ state[1].content = RecordOf(p))

\* C6: a status that reads the record start process p wrote prints exactly p's
\* directory, id and pid; a status run while no record exists prints "no active
\* session".
C6_RoundTrip ==
    [][/\ \A p \in Starters :
             (/\ tpc = "read"
              /\ StatusStep
              /\ SessionActive(p)
              /\ state # <<>>
              /\ state[1].content = RecordOf(p))
             => tout' = [kind |-> "active", fields |-> FieldsOf(p)]
       /\ (tpc = "idle" /\ StatusStep /\ state = <<>>) => tout'.kind = "no_active"]_vars

\* C7: a stop invoked while no state record exists returns "no active session",
\* sends no signal and changes no file and no process.
C7_StopWithoutRecord ==
    [][(spc = "idle" /\ StopStep /\ state = <<>>)
          => (/\ sres' = "no_active"
              /\ spc' = "idle"
              /\ signalled' = signalled
              /\ UNCHANGED <<startVars, fsVars, outfile>>)]_vars

C7_Witness ==
    /\ sres = "no_active"
    /\ spc = "idle"
    /\ state = <<>>
    /\ \E p \in Starters : pc[p] = "done"

\* C8: when the state record does not parse into exactly three fields, stop and
\* status each report the error and return; stop sends no signal and neither
\* changes the state record, an audit log or any other file.
C8_CorruptIsSurfaced ==
    [][(state # <<>> /\ Len(parse_state(state[1].content)) # 3)
          => (/\ (spc = "read" /\ StopStep)
                    => (/\ sres' = "ValueError"
                        /\ spc' = "idle"
                        /\ signalled' = signalled
                        /\ UNCHANGED <<startVars, fsVars, outfile>>)
              /\ (tpc = "read" /\ StatusStep)
                    => (/\ tout'.kind = "ValueError"
                        /\ tpc' = "idle"
                        /\ UNCHANGED <<startVars, fsVars, outfile>>))]_vars

C8_Witness ==
    /\ state # <<>>
    /\ Len(parse_state(state[1].content)) # 3
    /\ sres = "ValueError"
    /\ tout.kind = "ValueError"
    /\ spc = "idle"
    /\ tpc = "idle"

\* C9: a start that aborts (MissingDependency, AlreadyExists) changes no file:
\* directories, audit logs, command logs and the state record stay as they were;
\* a start that goes on has made a directory that did not exist before.
C9_AbortLeavesNoTrace ==
    [][\A p \in Starters :
          /\ (pc[p] = "idle" /\ pc'[p] = "exited")
                => (/\ err'[p] \in {"MissingDependency", "AlreadyExists"}
                    /\ UNCHANGED <<fsVars, outfile>>)
          /\ (pc[p] = "idle" /\ pc'[p] = "log_start")
                => (/\ sdir'[p] \notin dirs
                    /\ dirs' = dirs \cup {sdir'[p]}
                    /\ UNCHANGED <<audit, jsonl, state, outfile>>)]_vars

C9_Witness ==
    \E p \in Starters, q \in Starters :
        /\ pc[p] = "exited"
        /\ err[p] = "AlreadyExists"
        /\ q # p
        /\ sdir[q] \in dirs

\* C10: over every sequence of start, stop, status, import and hook appends, each
\* session's audit.log and commands.jsonl only grows: its content at any state is
\* a prefix of its content at every later state.
C10_AppendOnly ==
    [][/\ \A d \in DOMAIN audit : d \in DOMAIN audit' /\ IsPrefix(audit[d], audit'[d])
       /\ \A d \in DOMAIN jsonl : d \in DOMAIN jsonl' /\ IsPrefix(jsonl[d], jsonl'[d])]_vars
\* ---- import / export ----

\* the lines of `lines` that json.loads accepts, in their order
ValidLines(lines) == SelectSeq(lines, IsJson)

\* what the events array must hold for the stream `lines`
ExpectedEvents(lines, template) ==
    [i \in 1..Len(ValidLines(lines)) |->
        IF template THEN Mapped(ValidLines(lines)[i]) ELSE ValidLines(lines)[i]]

\* content is a complete {"events": [...]} document
IsDocument(content) ==
    /\ Len(content) >= 2
    /\ content[1] = [kind |-> "doc", event |-> "open", details |-> <<>>]
    /\ content[Len(content)] = [kind |-> "doc", event |-> "close", details |-> <<>>]
    /\ \A i \in 2..(Len(content) - 1) : content[i].kind = "doc" /\ content[i].event = "item"

\* the events array json.load gives back for a complete document
EventsOf(content) == [i \in 1..(Len(content) - 2) |-> content[i + 1].details]

\* what the file `path` names holds after the step
ContentAfter(path) ==
    CASE path.kind = "out" -> outfile'[1]
      [] path.kind = "jsonl" -> jsonl'[path.dir]
      [] path.kind = "audit" -> audit'[path.dir]

\* the step is the read of an import whose input checks passed
ImportReadStep == ipc = "idle" /\ ipc' = "open"

\* the step is the end of an import that reported its count
ImportExportedStep == ipc = "dump" /\ ires'.kind = "exported"

\* C11: the events array of the exported document is exactly the input lines
\* that parse as JSON, in input order, each wrapped as {"mapped": event} when a
\* template is given; a malformed line does not keep later lines out, and an
\* empty stream exports {"events": []}.
C11_ExportsValidLinesInOrder ==
    [][/\ ImportReadStep => ievents' = ExpectedEvents(ReadLines(iin'), itemplate')
       /\ ImportReadStep /\ ReadLines(iin') = <<>> => ievents' = <<>>
       /\ ImportExportedStep =>
            /\ IsDocument(ContentAfter(iout))
            /\ EventsOf(ContentAfter(iout)) = ievents]_vars

\* an export, to a file of its own, of a stream with a malformed line between two
\* valid lines: both valid lines are in the document, in order
C11_Witness ==
    /\ Len(jsonl[OldDir]) = 3
    /\ IsJson(jsonl[OldDir][1]) /\ ~IsJson(jsonl[OldDir][2]) /\ IsJson(jsonl[OldDir][3])
    /\ jsonl[OldDir][1] # jsonl[OldDir][3]
    /\ ires.kind = "exported"
    /\ outfile # <<>>
    /\ IsDocument(outfile[1])
    /\ EventsOf(outfile[1]) = <<jsonl[OldDir][1], jsonl[OldDir][3]>>

\* C12 as stated: N events, count N, and one warning for every line that is not
\* parseable JSON.
C12_WarnsEveryUnparseableLine ==
    [][/\ ImportReadStep =>
            /\ Len(ievents') = Len(ValidLines(ReadLines(iin')))
            /\ iwarn' = Cardinality({i \in 1..Len(ReadLines(iin')) :
                                        ~IsJson(ReadLines(iin')[i])})
       /\ ImportExportedStep =>
            /\ Len(EventsOf(ContentAfter(iout))) = Len(ievents)
            /\ ires'.count = Len(ievents)
            /\ ires'.warnings = iwarn]_vars

\* C12 amended: N events, count N, and one warning for every line that is
\* neither blank nor parseable JSON; a line of only whitespace gives no event and
\* no warning.
C12_WarnsEveryMalformedLine ==
    [][/\ ImportReadStep =>
            /\ Len(ievents') = Len(ValidLines(ReadLines(iin')))
            /\ iwarn' = Cardinality({i \in 1..Len(ReadLines(iin')) :
                                        /\ ReadLines(iin')[i].kind # "blank"
                                        /\ ~IsJson(ReadLines(iin')[i])})
       /\ ImportExportedStep =>
            /\ Len(EventsOf(ContentAfter(iout))) = Len(ievents)
            /\ ires'.count = Len(ievents)
            /\ ires'.warnings = iwarn]_vars

\* an export of a stream with one valid, one malformed and one blank line reported
\* one event and one warning
C12_Witness ==
    /\ Len(jsonl[OldDir]) = 3
    /\ \E i, j, k \in 1..3 :
          /\ IsJson(jsonl[OldDir][i])
          /\ jsonl[OldDir][j].kind = "bad"
          /\ jsonl[OldDir][k].kind = "blank"
    /\ ires = [kind |-> "exported", count |-> 1, warnings |-> 1]
    /\ outfile # <<>>
    /\ Len(outfile[1]) = 3

\* C13: an import whose input path does not exist, or is not a regular file, ends
\* with InputNotFound / NotAFile without reading anything, and leaves the output
\* path and its parent directories as they were.
C13_InputChecksComeFirst ==
    [][ipc = "idle" /\ nimports' # nimports =>
          /\ ~exists(iin') => ires'.kind = "InputNotFound"
          /\ exists(iin') /\ ~is_file(iin') => ires'.kind = "NotAFile"
          /\ ires'.kind \in {"InputNotFound", "NotAFile"} =>
                /\ ~exists(iin') \/ ~is_file(iin')
                /\ ipc' = "idle"
                /\ UNCHANGED <<ievents, iwarn, iout>>
                /\ UNCHANGED <<outfile, outparent, dirs, audit, jsonl, state>>]_vars

\* an import of a directory was refused while no export file or parent exists
C13_Witness ==
    /\ ires.kind = "NotAFile"
    /\ iin.kind = "dir"
    /\ ipc = "idle"
    /\ outfile = <<>>
    /\ ~outparent

\* C14: the output file is never seen partially written: every step leaves it as
\* it was or leaves the complete document in it.
C14_NeverPartiallyWritten ==
    [][outfile' = outfile \/ (outfile' # <<>> /\ IsDocument(outfile'[1]))]_vars

\* ---- permissions ----

\* C15: every session directory has mode rwx for the owner only, and every file
\* in it has no permission bit for group or other, in every state after its
\* creation, whatever the umask.
C15_OwnerOnlyAlways ==
    \A f \in DOMAIN perm :
        IF f.kind = "dir" THEN perm[f] = OwnerRWX ELSE perm[f] \subseteq OwnerRWX

\* ---- names ----

\* the characters of [A-Za-z0-9_-] in the alphabet
SafeChars == AsciiAlnum \cup {"_", "-"}

\* C16: for every name, the output of sanitize holds only ASCII letters, ASCII
\* digits, '_' and '-', and is at most 50 characters long.
C16_SanitizedIsAsciiSafe ==
    made # NoNames =>
        /\ Len(made.sanitized) <= 50
        /\ \A i \in 1..Len(made.sanitized) : made.sanitized[i] \in SafeChars

\* <base>_<name> when name is not empty, <base> alone when it is
Suffixed(base, name) == IF name # <<>> THEN base \o <<"_">> \o name ELSE base

\* C17: the session directory is <timestamp>_<hostname>_<user>_<sanitize(name)>
\* when the sanitized name is not empty and <timestamp>_<hostname>_<user> with no
\* trailing separator otherwise; the transcript and timing files are
\* <timestamp>[_<name>].log and <timestamp>[_<name>].time by the same rule.
C17_NamesFollowSanitizedName ==
    made # NoNames =>
        /\ made.dir = Suffixed(made.now \o <<"_">> \o hostname \o <<"_">> \o user,
                               sanitize_name(given))
        /\ made.transcript = Suffixed(made.now, sanitize_name(given)) \o <<".log">>
        /\ made.timing = Suffixed(made.now, sanitize_name(given)) \o <<".time">>

\* ---- the state record under concurrency ----

\* C18: the state record is created atomically, after the session directory: at
\* every moment there is no record, or the record is the complete three-field
\* text of a start process whose session directory exists.
C18_RecordIsNeverPartial ==
    state # <<>> =>
        \E p \in Starters : state[1].content = RecordOf(p) /\ sdir[p] \in dirs

\* C19: a stop, or a session's end-of-session cleanup, that finds the record
\* already removed when it comes to open or delete it does not fail.
C19_DeleteToleratesAbsence ==
    [][/\ (spc \in {"read", "unlink"} /\ StopStep /\ state = <<>>)
            => sres' # "FileNotFoundError"
       /\ \A p \in Starters :
             (pc[p] = "finally_unlink" /\ pc'[p] # pc[p] /\ state = <<>>)
                 => (pc'[p] = "done" /\ err'[p] = "none")]_vars

\* C20: every Command Event of a session started with a name carries the
\* sanitized name as its tag.
C20_TagIsSanitizedName ==
    \A p \in Starters :
        (nm[p] # <<>> /\ sdir[p] \in DOMAIN jsonl) =>
            \A i \in 1..Len(jsonl[sdir[p]]) :
                (jsonl[sdir[p]][i].kind = "cmd" /\ jsonl[sdir[p]][i].event = uuid4(p))
                    => jsonl[sdir[p]][i].details = sanitize_name(nm[p])

\* ---- audit trail ----

\* the session of start process p is over: the process has ended, its captured
\* shell has exited and no stop is under way
SessionOver(p) ==
    /\ pc[p] \in {"done", "crashed", "killed"}
    /\ shell[p] = "exited"
    /\ spc = "idle"

\* log holds a session_end or session_stop event after a session_start event
ClosedAfterStart(log) ==
    \E i, j \in 1..Len(log) :
        /\ i < j
        /\ log[i].kind = "audit" /\ log[i].event = "session_start"
        /\ log[j].kind = "audit" /\ log[j].event \in {"session_end", "session_stop"}

\* C21: once a session whose session_start was logged is over (shell exited,
\* start interrupted, or stopped while its owner was alive or gone), its audit
\* log holds a session_end or a session_stop event appended after session_start.
C21_AuditTrailIsClosed ==
    \A p \in Starters :
        (SessionOver(p) /\ HasEvent(audit[sdir[p]], "session_start"))
            => ClosedAfterStart(audit[sdir[p]])

====
